---- MODULE Spec2Model ----
(***************************************************************************)
(* A model of the multithreading examples:                                 *)
(*   - thread_synchronization.py : Counter, UnsafeCounter, increment_worker*)
(*   - producer_consumer.py      : producer, consumer and their coordinator*)
(*   - thread_pool.py            : run_thread_pool_example and map_example *)
(* Each example is a specification of its own over one set of variables;   *)
(* the variables of the other examples keep their initial values.          *)
(***************************************************************************)
EXTENDS Integers, Sequences, FiniteSets, TLC

\* ---------------------------------------------------------------- bounds
MaxThreads == 2
MaxIter == 2
MaxProducers == 2
MaxItems == 2
MaxConsumers == 2
MaxCap == 2
MaxTotalItems == 4
MaxTasks == 4
MaxWorkers == 3
MaxInput == 1

\* ------------------------------------------------------------- variables
VARIABLES
  \* thread_synchronization.py
  counterKind,   \* class of the shared counter: "Counter" or "UnsafeCounter"
  numThreads,    \* number of increment_worker threads the caller creates
  iterations,    \* iterations argument of increment_worker
  value,         \* counter.value
  lock,          \* Counter.lock: 0 when free, else the thread holding it
  wpc,           \* position of each increment_worker thread
  wcurrent,      \* local variable current of increment()
  witer,         \* iterations of the for loop already finished
  tpc,           \* position of the calling (test / example) thread
  tidx,          \* loop index of the caller's start and join loops
  result,        \* value returned by the caller's final get_value(), -1 before
  \* producer_consumer.py
  numProducers,  \* number of producer threads
  numItems,      \* num_items of every producer
  numConsumers,  \* number of consumer threads
  maxsize,       \* queue.Queue(maxsize): 0 is an unbounded queue
  queue,         \* the items held by the queue, oldest first
  unfinished,    \* Queue.unfinished_tasks: puts not yet matched by task_done
  stop_event,    \* threading.Event: TRUE once set
  ppc,           \* position of each producer thread
  pidx,          \* loop variable i of each producer
  cpc,           \* position of each consumer thread
  citem,         \* local variable item of each consumer
  consumed,      \* per consumer, the items its get calls returned, in order
  mpc,           \* position of the coordinating thread
  midx,          \* loop index of the coordinator's start and join loops
  \* thread_pool.py
  poolMode,      \* "as_completed" (run_thread_pool_example) or "map" (map_example)
  max_workers,   \* ThreadPoolExecutor(max_workers)
  inputs,        \* the arguments submitted, one task each, in order
  work_queue,    \* the executor's queue of submitted, not yet started tasks
  fstate,        \* per future: "none", "pending", "running" or "finished"
  fresult,       \* per future: the value the task returned
  worker,        \* per worker thread: the task it is running, 0 when idle
  xpc,           \* position of the thread using the executor
  submitted,     \* number of executor.submit calls made
  acYield,       \* as_completed: the finished futures about to be yielded
  acPending,     \* as_completed: the futures not yet yielded nor scheduled
  waiterOn,      \* as_completed: the waiter is installed on the futures
  waiterFinished,\* as_completed: waiter.finished_futures
  results,       \* the results list the caller builds
  completed,     \* the tasks in the order in which their bodies returned
  failing,       \* the tasks whose body raises instead of returning
  raisedBy,      \* the future whose result() raised in the caller, 0 if none
  acFirst        \* as_completed: the futures already finished when it started

counterVars ==
  <<counterKind, numThreads, iterations, value, lock, wpc, wcurrent, witer,
    tpc, tidx, result>>

pcVars ==
  <<numProducers, numItems, numConsumers, maxsize, queue, unfinished,
    stop_event, ppc, pidx, cpc, citem, consumed, mpc, midx>>

poolVars ==
  <<poolMode, max_workers, inputs, work_queue, fstate, fresult, worker, xpc,
    submitted, acYield, acPending, waiterOn, waiterFinished, results,
    completed, failing, raisedBy, acFirst>>

vars == <<counterVars, pcVars, poolVars>>

Threads == 1..numThreads

\* ============================================================== counters
\* Counter.__init__ / UnsafeCounter.__init__ and the caller's empty thread list.
CounterInit(kind) ==
  /\ counterKind = kind
  /\ numThreads \in 1..MaxThreads
  /\ iterations \in 0..MaxIter
  /\ value = 0
  /\ lock = 0
  /\ wpc = [t \in 1..MaxThreads |-> "idle"]
  /\ wcurrent = [t \in 1..MaxThreads |-> 0]
  /\ witer = [t \in 1..MaxThreads |-> 0]
  /\ tpc = "start"
  /\ tidx = 0
  /\ result = -1

\* threading.Lock: acquire succeeds only on a free lock.
LockFreeUnguarded(l) == TRUE

LockFree(l) == l = 0

\* threading.Lock: leaving the with block frees the lock.
LockKept(l) == l

LockAfterRelease(l) == 0

\* The value Counter.increment stores.
CounterStoredTwice(current) == current + 2

CounterStored(current) == current + 1

\* thread.start() in the caller's first loop.
StartThread ==
  /\ tpc = "start"
  /\ tidx < numThreads
  /\ wpc' = [wpc EXCEPT ![tidx + 1] = "loop"]
  /\ tidx' = tidx + 1
  /\ UNCHANGED <<counterKind, numThreads, iterations, value, lock, wcurrent,
                 witer, tpc, result>>

\* The first loop is over: the caller goes on to the join loop.
StartDone ==
  /\ tpc = "start"
  /\ tidx = numThreads
  /\ tpc' = "join"
  /\ tidx' = 0
  /\ UNCHANGED <<counterKind, numThreads, iterations, value, lock, wpc,
                 wcurrent, witer, result>>

\* increment_worker: for _ in range(iterations): counter.increment()
WorkerLoop(t) ==
  /\ wpc[t] = "loop"
  /\ IF witer[t] < iterations
       THEN wpc' = [wpc EXCEPT ![t] =
                      IF counterKind = "Counter" THEN "acquire" ELSE "uread"]
       ELSE wpc' = [wpc EXCEPT ![t] = "done"]
  /\ UNCHANGED <<counterKind, numThreads, iterations, value, lock, wcurrent,
                 witer, tpc, tidx, result>>

\* Counter.increment: with self.lock (entry)
CounterAcquire(t) ==
  /\ wpc[t] = "acquire"
  /\ LockFree(lock)
  /\ lock' = t
  /\ wpc' = [wpc EXCEPT ![t] = "read"]
  /\ UNCHANGED <<counterKind, numThreads, iterations, value, wcurrent, witer,
                 tpc, tidx, result>>

\* Counter.increment: current = self.value
CounterRead(t) ==
  /\ wpc[t] = "read"
  /\ wcurrent' = [wcurrent EXCEPT ![t] = value]
  /\ wpc' = [wpc EXCEPT ![t] = "write"]
  /\ UNCHANGED <<counterKind, numThreads, iterations, value, lock, witer,
                 tpc, tidx, result>>

\* Counter.increment: (sleep) self.value = current + 1
CounterWrite(t) ==
  /\ wpc[t] = "write"
  /\ value' = CounterStored(wcurrent[t])
  /\ wpc' = [wpc EXCEPT ![t] = "release"]
  /\ UNCHANGED <<counterKind, numThreads, iterations, lock, wcurrent, witer,
                 tpc, tidx, result>>

\* Counter.increment: with self.lock (exit), back to the for loop
CounterRelease(t) ==
  /\ wpc[t] = "release"
  /\ lock' = LockAfterRelease(lock)
  /\ witer' = [witer EXCEPT ![t] = @ + 1]
  /\ wpc' = [wpc EXCEPT ![t] = "loop"]
  /\ UNCHANGED <<counterKind, numThreads, iterations, value, wcurrent, tpc,
                 tidx, result>>

\* The value UnsafeCounter.increment stores.
UnsafeStoredTwice(current) == current + 2

UnsafeStoredSame(current) == current

UnsafeStored(current) == current + 1

\* UnsafeCounter.increment: current = self.value
UnsafeRead(t) ==
  /\ wpc[t] = "uread"
  /\ wcurrent' = [wcurrent EXCEPT ![t] = value]
  /\ wpc' = [wpc EXCEPT ![t] = "uwrite"]
  /\ UNCHANGED <<counterKind, numThreads, iterations, value, lock, witer,
                 tpc, tidx, result>>

\* UnsafeCounter.increment: (sleep) self.value = current + 1, back to the loop
UnsafeWrite(t) ==
  /\ wpc[t] = "uwrite"
  /\ value' = UnsafeStored(wcurrent[t])
  /\ witer' = [witer EXCEPT ![t] = @ + 1]
  /\ wpc' = [wpc EXCEPT ![t] = "loop"]
  /\ UNCHANGED <<counterKind, numThreads, iterations, lock, wcurrent, tpc,
                 tidx, result>>

\* thread.join() in the caller's second loop: returns once the thread is over.
JoinThread ==
  /\ tpc = "join"
  /\ tidx < numThreads
  /\ wpc[tidx + 1] = "done"
  /\ tidx' = tidx + 1
  /\ UNCHANGED <<counterKind, numThreads, iterations, value, lock, wpc,
                 wcurrent, witer, tpc, result>>

\* Every thread is joined: the caller goes on to read the counter.
JoinDone ==
  /\ tpc = "join"
  /\ tidx = numThreads
  /\ tpc' = "get"
  /\ UNCHANGED <<counterKind, numThreads, iterations, value, lock, wpc,
                 wcurrent, witer, tidx, result>>

\* counter.get_value(): Counter takes the lock around the read, UnsafeCounter
\* reads directly.
GetValue ==
  /\ tpc = "get"
  /\ counterKind = "Counter" => LockFree(lock)
  /\ result' = value
  /\ tpc' = "done"
  /\ UNCHANGED <<counterKind, numThreads, iterations, value, lock, wpc,
                 wcurrent, witer, tidx>>

\* ===================================================== producer/consumer
Producers == 0..(numProducers - 1)

Consumers == 0..(numConsumers - 1)

\* item = f"Item-{producer_id}-{i}"
Item(producer_id, i) == <<producer_id, i>>

\* queue.Queue.full(): 0 < maxsize <= qsize; maxsize 0 never fills.
NeverFull(q, m) == FALSE

Full(q, m) == 0 < m /\ m <= Len(q)

\* queue.Queue._put: append on the right.
PutFront(q, item) == <<item>> \o q

Put(q, item) == Append(q, item)

\* queue.Queue._get: popleft, the item returned and the items left.
GetItem(q) == Head(q)

GetKeep(q) == q

GetRest(q) == Tail(q)

\* queue.Queue.join(): returns once unfinished_tasks is 0.
JoinImmediate(u) == TRUE

JoinReturns(u) == u = 0

\* Thread.join(): returns once the thread's target has returned.
ThreadOverAlways(pc) == TRUE

ThreadOver(pc) == pc = "done"

\* consumer: except queue.Empty: continue, back to the while condition.
AfterEmptyRetry == "get"

AfterEmptyExit == "done"

AfterEmptyTaskDone == "process"

AfterEmpty == "check_stop"

\* queue.Queue.empty(), as read by the consumer's while condition.
EmptyAlways(q) == TRUE

QueueEmpty(q) == q = <<>>

\* The queue, event and empty thread lists of run_producer_consumer_example
\* (and of the tests, which build an unbounded queue.Queue()).
PCInit ==
  /\ numProducers \in 1..MaxProducers
  /\ numItems \in 0..MaxItems
  /\ numProducers * numItems <= MaxTotalItems
  /\ numConsumers \in 1..MaxConsumers
  /\ maxsize \in 0..MaxCap
  /\ queue = <<>>
  /\ unfinished = 0
  /\ stop_event = FALSE
  /\ ppc = [p \in 0..(MaxProducers - 1) |-> "idle"]
  /\ pidx = [p \in 0..(MaxProducers - 1) |-> 0]
  /\ cpc = [c \in 0..(MaxConsumers - 1) |-> "idle"]
  /\ citem = [c \in 0..(MaxConsumers - 1) |-> <<>>]
  /\ consumed = [c \in 0..(MaxConsumers - 1) |-> <<>>]
  /\ mpc = "start_producers"
  /\ midx = 0

\* coordinator: thread.start() of the next producer
StartProducer ==
  /\ mpc = "start_producers"
  /\ ppc' = [ppc EXCEPT ![midx] = "loop"]
  /\ IF midx + 1 < numProducers
       THEN /\ midx' = midx + 1
            /\ mpc' = mpc
       ELSE /\ midx' = 0
            /\ mpc' = "start_consumers"
  /\ UNCHANGED <<numProducers, numItems, numConsumers, maxsize, queue,
                 unfinished, stop_event, pidx, cpc, citem, consumed>>

\* coordinator: thread.start() of the next consumer
StartConsumer ==
  /\ mpc = "start_consumers"
  /\ cpc' = [cpc EXCEPT ![midx] = "check_stop"]
  /\ IF midx + 1 < numConsumers
       THEN /\ midx' = midx + 1
            /\ mpc' = mpc
       ELSE /\ midx' = 0
            /\ mpc' = "join_producers"
  /\ UNCHANGED <<numProducers, numItems, numConsumers, maxsize, queue,
                 unfinished, stop_event, ppc, pidx, citem, consumed>>

\* coordinator: thread.join() of the next producer
JoinProducer ==
  /\ mpc = "join_producers"
  /\ ThreadOver(ppc[midx])
  /\ IF midx + 1 < numProducers
       THEN /\ midx' = midx + 1
            /\ mpc' = mpc
       ELSE /\ midx' = 0
            /\ mpc' = "queue_join"
  /\ UNCHANGED <<numProducers, numItems, numConsumers, maxsize, queue,
                 unfinished, stop_event, ppc, pidx, cpc, citem, consumed>>

\* coordinator: work_queue.join()
QueueJoin ==
  /\ mpc = "queue_join"
  /\ JoinReturns(unfinished)
  /\ mpc' = "set_stop"
  /\ UNCHANGED <<numProducers, numItems, numConsumers, maxsize, queue,
                 unfinished, stop_event, ppc, pidx, cpc, citem, consumed,
                 midx>>

\* coordinator: stop_event.set()
SetStop ==
  /\ mpc = "set_stop"
  /\ stop_event' = TRUE
  /\ mpc' = "join_consumers"
  /\ UNCHANGED <<numProducers, numItems, numConsumers, maxsize, queue,
                 unfinished, ppc, pidx, cpc, citem, consumed, midx>>

\* coordinator: thread.join() of the next consumer
JoinConsumer ==
  /\ mpc = "join_consumers"
  /\ ThreadOver(cpc[midx])
  /\ IF midx + 1 < numConsumers
       THEN /\ midx' = midx + 1
            /\ mpc' = mpc
       ELSE /\ midx' = 0
            /\ mpc' = "done"
  /\ UNCHANGED <<numProducers, numItems, numConsumers, maxsize, queue,
                 unfinished, stop_event, ppc, pidx, cpc, citem, consumed>>

\* producer: for i in range(num_items)
ProducerLoop(p) ==
  /\ ppc[p] = "loop"
  /\ ppc' = [ppc EXCEPT ![p] = IF pidx[p] < numItems THEN "put" ELSE "done"]
  /\ UNCHANGED <<numProducers, numItems, numConsumers, maxsize, queue,
                 unfinished, stop_event, pidx, cpc, citem, consumed, mpc,
                 midx>>

\* Queue.put counts the item as an unfinished task.
UnfinishedSame(u) == u

UnfinishedAfterPut(u) == u + 1

\* producer: queue_obj.put(item), blocking while the queue is full; then the
\* sleep and the next iteration.
ProducerPut(p) ==
  /\ ppc[p] = "put"
  /\ ~Full(queue, maxsize)
  /\ queue' = Put(queue, Item(p, pidx[p]))
  /\ unfinished' = UnfinishedAfterPut(unfinished)
  /\ pidx' = [pidx EXCEPT ![p] = @ + 1]
  /\ ppc' = [ppc EXCEPT ![p] = "loop"]
  /\ UNCHANGED <<numProducers, numItems, numConsumers, maxsize, stop_event,
                 cpc, citem, consumed, mpc, midx>>

\* consumer: while not stop_event.is_set() ...
ConsumerCheckStop(c) ==
  /\ cpc[c] = "check_stop"
  /\ cpc' = [cpc EXCEPT ![c] = IF ~stop_event THEN "get" ELSE "check_empty"]
  /\ UNCHANGED <<numProducers, numItems, numConsumers, maxsize, queue,
                 unfinished, stop_event, ppc, pidx, citem, consumed, mpc,
                 midx>>

\* consumer: ... or not queue_obj.empty(); the loop ends when this is false too
ConsumerCheckEmpty(c) ==
  /\ cpc[c] = "check_empty"
  /\ cpc' = [cpc EXCEPT ![c] = IF ~QueueEmpty(queue) THEN "get" ELSE "done"]
  /\ UNCHANGED <<numProducers, numItems, numConsumers, maxsize, queue,
                 unfinished, stop_event, ppc, pidx, citem, consumed, mpc,
                 midx>>

\* consumer: item = queue_obj.get(timeout=0.5) returning an item
ConsumerGet(c) ==
  /\ cpc[c] = "get"
  /\ queue # <<>>
  /\ citem' = [citem EXCEPT ![c] = GetItem(queue)]
  /\ consumed' = [consumed EXCEPT ![c] = Append(@, GetItem(queue))]
  /\ queue' = GetRest(queue)
  /\ cpc' = [cpc EXCEPT ![c] = "process"]
  /\ UNCHANGED <<numProducers, numItems, numConsumers, maxsize, unfinished,
                 stop_event, ppc, pidx, mpc, midx>>

\* consumer: get(timeout=0.5) on a queue that stayed empty raises queue.Empty
ConsumerGetEmpty(c) ==
  /\ cpc[c] = "get"
  /\ queue = <<>>
  /\ cpc' = [cpc EXCEPT ![c] = AfterEmpty]
  /\ UNCHANGED <<numProducers, numItems, numConsumers, maxsize, queue,
                 unfinished, stop_event, ppc, pidx, citem, consumed, mpc,
                 midx>>

\* consumer: (sleep) queue_obj.task_done()
ConsumerTaskDone(c) ==
  /\ cpc[c] = "process"
  /\ unfinished' = unfinished - 1
  /\ cpc' = [cpc EXCEPT ![c] = "check_stop"]
  /\ UNCHANGED <<numProducers, numItems, numConsumers, maxsize, queue,
                 stop_event, ppc, pidx, citem, consumed, mpc, midx>>

\* The event is an argument of consumer(): whoever holds it may set it at
\* any moment (test_consumer sets it before the consumer even starts).
StopAnytime ==
  /\ ~stop_event
  /\ stop_event' = TRUE
  /\ UNCHANGED <<numProducers, numItems, numConsumers, maxsize, queue,
                 unfinished, ppc, pidx, cpc, citem, consumed, mpc, midx>>

\* ------------------------------------------------ test_consumer's caller
\* test_consumer: an unbounded queue, an unset event, no producer thread.
EarlyStopInit ==
  /\ numProducers = 0
  /\ numItems \in 0..MaxTotalItems
  /\ numConsumers \in 1..MaxConsumers
  /\ maxsize = 0
  /\ queue = <<>>
  /\ unfinished = 0
  /\ stop_event = FALSE
  /\ ppc = [p \in 0..(MaxProducers - 1) |-> "idle"]
  /\ pidx = [p \in 0..(MaxProducers - 1) |-> 0]
  /\ cpc = [c \in 0..(MaxConsumers - 1) |-> "idle"]
  /\ citem = [c \in 0..(MaxConsumers - 1) |-> <<>>]
  /\ consumed = [c \in 0..(MaxConsumers - 1) |-> <<>>]
  /\ mpc = "test_put"
  /\ midx = 0

\* test_consumer: for i in range(5): test_queue.put(f"Item-0-{i}")
TestPut ==
  /\ mpc = "test_put"
  /\ pidx[0] < numItems
  /\ ~Full(queue, maxsize)
  /\ queue' = Put(queue, Item(0, pidx[0]))
  /\ unfinished' = UnfinishedAfterPut(unfinished)
  /\ pidx' = [pidx EXCEPT ![0] = @ + 1]
  /\ UNCHANGED <<numProducers, numItems, numConsumers, maxsize, stop_event,
                 ppc, cpc, citem, consumed, mpc, midx>>

\* test_consumer: stop_event.set(), before any consumer is started
TestSetStop ==
  /\ mpc = "test_put"
  /\ pidx[0] = numItems
  /\ stop_event' = TRUE
  /\ mpc' = "test_start"
  /\ UNCHANGED <<numProducers, numItems, numConsumers, maxsize, queue,
                 unfinished, ppc, pidx, cpc, citem, consumed, midx>>

\* test_consumer: consumer_thread.start()
TestStartConsumer ==
  /\ mpc = "test_start"
  /\ cpc' = [cpc EXCEPT ![midx] = "check_stop"]
  /\ IF midx + 1 < numConsumers
       THEN /\ midx' = midx + 1
            /\ mpc' = mpc
       ELSE /\ midx' = 0
            /\ mpc' = "join_consumers"
  /\ UNCHANGED <<numProducers, numItems, numConsumers, maxsize, queue,
                 unfinished, stop_event, ppc, pidx, citem, consumed>>

\* ============================================================ thread pool
Workers == 1..max_workers

Futures == 1..Len(inputs)

\* task(task_id): result = task_id * task_id; the caller keeps (task_id, result)
TaskResult(task_id) == <<task_id, task_id * task_id>>

\* map_example.square(n)
Square(n) == n * n

\* What the submitted callable returns for an argument.
Call(mode, arg) == IF mode = "map" THEN Square(arg) ELSE TaskResult(arg)

\* Executor.map's result iterator: fs.reverse(), then fs.pop() per result;
\* the position in fs of the future read after `collected` results.
MapNextUnreversed(n, collected) == n - collected

MapNext(n, collected) == collected + 1

\* as_completed: waiter.finished_futures after the loop has taken the list.
WaiterKept(finished) == finished

WaiterAfterSwap(finished) == <<>>

\* What a future holds once its task body has raised (set_exception).
Failure == <<"TaskFailure">>

\* _WorkItem.run: an exception of fn is stored on the future; the work
\* queue is left as it is and the worker thread goes on.
QueueDropped(q) == <<>>

QueueAfterFailure(q) == q

\* The body of task() returns for every task; a spec may name tasks whose
\* body raises.
NoFailure == failing = {} /\ raisedBy = 0

OneFailure == failing \in {{f} : f \in 1..Len(inputs)} /\ raisedBy = 0

\* as_completed: finished.reverse() and the pops from the end of the list
\* yield a batch of the waiter in the order in which it was filled.
BatchReversed(finished) ==
  [i \in 1..Len(finished) |-> finished[Len(finished) + 1 - i]]

BatchOrder(finished) == finished

\* All orders in which a set of futures can be listed.
RECURSIVE Orders(_)
Orders(S) ==
  IF S = {} THEN {<<>>}
  ELSE UNION {{<<x>> \o o : o \in Orders(S \ {x})} : x \in S}

\* The executor and argument list of: run_thread_pool_example (mode
\* "as_completed", task ids range(num_tasks)) and map_example (mode "map").
PoolInit(mode) ==
  /\ poolMode = mode
  /\ max_workers \in 1..MaxWorkers
  /\ IF mode = "map"
       THEN \E n \in 0..MaxTasks :
              \/ inputs \in [1..n -> 0..MaxInput]
              \/ inputs = [i \in 1..n |-> i - 1]
       ELSE \E n \in 0..MaxTasks : inputs = [i \in 1..n |-> i - 1]
  /\ work_queue = <<>>
  /\ fstate = [i \in 1..Len(inputs) |-> "none"]
  /\ fresult = [i \in 1..Len(inputs) |-> <<>>]
  /\ worker = [w \in 1..MaxWorkers |-> 0]
  /\ xpc = "submit"
  /\ submitted = 0
  /\ acYield = <<>>
  /\ acPending = {}
  /\ waiterOn = FALSE
  /\ waiterFinished = <<>>
  /\ results = <<>>
  /\ completed = <<>>
  /\ acFirst = {}

\* executor.submit(fn, arg): a new pending future, queued for the workers.
Submit ==
  /\ xpc = "submit"
  /\ submitted < Len(inputs)
  /\ submitted' = submitted + 1
  /\ fstate' = [fstate EXCEPT ![submitted + 1] = "pending"]
  /\ work_queue' = Append(work_queue, submitted + 1)
  /\ UNCHANGED <<acFirst,
                 completed, poolMode, max_workers, inputs,
                 fresult, worker, xpc, acYield,
                 acPending, waiterOn, waiterFinished, results>>

\* Every argument is submitted: as_completed(futures) starts, or the result
\* iterator of executor.map is consumed by list().
SubmitDone ==
  /\ xpc = "submit"
  /\ submitted = Len(inputs)
  /\ xpc' = IF poolMode = "map" THEN "map_results" ELSE "ac_init"
  /\ UNCHANGED <<acFirst,
                 completed, poolMode, max_workers, inputs,
                 work_queue, fstate, fresult,
                 worker, submitted, acYield, acPending, waiterOn,
                 waiterFinished, results>>

\* work_queue.get() removes the work item it returns.
QueueKept(q) == q

QueueAfterTake(q) == Tail(q)

\* worker thread: take the oldest queued work item and start running it.
WorkerTake(w) ==
  /\ worker[w] = 0
  /\ work_queue # <<>>
  /\ worker' = [worker EXCEPT ![w] = Head(work_queue)]
  /\ fstate' = [fstate EXCEPT ![Head(work_queue)] = "running"]
  /\ work_queue' = QueueAfterTake(work_queue)
  /\ UNCHANGED <<acFirst,
                 completed, poolMode, max_workers, inputs,
                 fresult, xpc, submitted,
                 acYield, acPending, waiterOn, waiterFinished, results>>

\* worker thread: the task returns; future.set_result stores the value and
\* tells the installed waiter.
WorkerFinish(w) ==
  /\ worker[w] # 0
  /\ worker[w] \notin failing
  /\ fstate' = [fstate EXCEPT ![worker[w]] = "finished"]
  /\ fresult' = [fresult EXCEPT ![worker[w]] = Call(poolMode, inputs[worker[w]])]
  /\ waiterFinished' =
       IF waiterOn THEN Append(waiterFinished, worker[w]) ELSE waiterFinished
  /\ worker' = [worker EXCEPT ![w] = 0]
  /\ completed' = Append(completed, worker[w])
  /\ UNCHANGED <<acFirst,
                 poolMode, max_workers, inputs, work_queue, xpc, submitted,
                 acYield, acPending, waiterOn, results>>

\* worker thread: the task body raises; future.set_exception stores the
\* failure and tells the installed waiter; the worker is idle again.
WorkerFail(w) ==
  /\ worker[w] # 0
  /\ worker[w] \in failing
  /\ fstate' = [fstate EXCEPT ![worker[w]] = "finished"]
  /\ fresult' = [fresult EXCEPT ![worker[w]] = Failure]
  /\ waiterFinished' =
       IF waiterOn THEN Append(waiterFinished, worker[w]) ELSE waiterFinished
  /\ worker' = [worker EXCEPT ![w] = 0]
  /\ completed' = Append(completed, worker[w])
  /\ work_queue' = QueueAfterFailure(work_queue)
  /\ UNCHANGED <<acFirst,
                 poolMode, max_workers, inputs, xpc, submitted, acYield,
                 acPending, waiterOn, results>>

\* as_completed: under the futures' locks, list the futures already finished
\* (a set: any order), keep the others as pending, install the waiter.
AsCompletedInit ==
  /\ xpc = "ac_init"
  /\ LET finished == {f \in Futures : fstate[f] = "finished"}
     IN /\ acYield' \in Orders(finished)
        /\ acPending' = Futures \ finished
  /\ waiterOn' = TRUE
  /\ acFirst' = {f \in Futures : fstate[f] = "finished"}
  /\ xpc' = "ac_loop"
  /\ UNCHANGED <<completed, poolMode, max_workers, inputs,
                 work_queue, fstate, fresult,
                 worker, submitted, waiterFinished, results>>

\* as_completed yields the next finished future; the loop body reads
\* future.result() and appends (task_id, result).
AsCompletedYield ==
  /\ xpc = "ac_loop"
  /\ acYield # <<>>
  /\ Head(acYield) \notin failing
  /\ results' = Append(results, fresult[Head(acYield)])
  /\ acPending' = acPending \ {Head(acYield)}
  /\ acYield' = Tail(acYield)
  /\ UNCHANGED <<acFirst,
                 completed, poolMode, max_workers, inputs,
                 work_queue, fstate, fresult,
                 worker, xpc, submitted, waiterOn, waiterFinished>>

\* as_completed yields a future whose task raised: future.result() raises
\* in the loop body, the generator is closed (its waiter removed) and the
\* exception leaves the with block, which shuts the executor down.
ResultRaises ==
  /\ xpc = "ac_loop"
  /\ acYield # <<>>
  /\ Head(acYield) \in failing
  /\ raisedBy' = Head(acYield)
  /\ waiterOn' = FALSE
  /\ xpc' = "shutdown"
  /\ UNCHANGED <<acFirst,
                 completed, poolMode, max_workers, inputs, work_queue,
                 fstate, fresult, worker, submitted, acYield, acPending,
                 waiterFinished, results>>

\* as_completed: while pending: wait for the waiter's event, take its list of
\* finished futures (kept in finishing order) and clear it.
AsCompletedWait ==
  /\ xpc = "ac_loop"
  /\ acYield = <<>>
  /\ acPending # {}
  /\ waiterFinished # <<>>
  /\ acYield' = BatchOrder(waiterFinished)
  /\ waiterFinished' = WaiterAfterSwap(waiterFinished)
  /\ UNCHANGED <<acFirst,
                 completed, poolMode, max_workers, inputs,
                 work_queue, fstate, fresult,
                 worker, xpc, submitted, acPending, waiterOn, results>>

\* as_completed: nothing pending any more: the waiter is removed and the
\* for loop ends.
AsCompletedEnd ==
  /\ xpc = "ac_loop"
  /\ acYield = <<>>
  /\ acPending = {}
  /\ waiterOn' = FALSE
  /\ xpc' = "shutdown"
  /\ UNCHANGED <<acFirst,
                 completed, poolMode, max_workers, inputs,
                 work_queue, fstate, fresult,
                 worker, submitted, acYield, acPending, waiterFinished,
                 results>>

\* list(executor.map(...)): the next future's result(), blocking until that
\* future is finished.
MapResult ==
  /\ xpc = "map_results"
  /\ Len(results) < Len(inputs)
  /\ LET f == MapNext(Len(inputs), Len(results))
     IN /\ fstate[f] = "finished"
        /\ results' = Append(results, fresult[f])
  /\ UNCHANGED <<acFirst,
                 completed, poolMode, max_workers, inputs,
                 work_queue, fstate, fresult,
                 worker, xpc, submitted, acYield, acPending, waiterOn,
                 waiterFinished>>

\* The result iterator is exhausted.
MapEnd ==
  /\ xpc = "map_results"
  /\ Len(results) = Len(inputs)
  /\ xpc' = "shutdown"
  /\ UNCHANGED <<acFirst,
                 completed, poolMode, max_workers, inputs,
                 work_queue, fstate, fresult,
                 worker, submitted, acYield, acPending, waiterOn,
                 waiterFinished, results>>

\* End of the with block: executor.shutdown(wait=True) returns once the
\* queue is empty and every worker thread is over.
Shutdown ==
  /\ xpc = "shutdown"
  /\ work_queue = <<>>
  /\ \A w \in Workers : worker[w] = 0
  /\ xpc' = "done"
  /\ UNCHANGED <<acFirst,
                 completed, poolMode, max_workers, inputs,
                 work_queue, fstate, fresult,
                 worker, submitted, acYield, acPending, waiterOn,
                 waiterFinished, results>>

\* ======================================================== specifications
\* The state of an example that is not running.
CounterIdle ==
  /\ counterKind = "none"
  /\ numThreads = 0
  /\ iterations = 0
  /\ value = 0
  /\ lock = 0
  /\ wpc = [t \in 1..MaxThreads |-> "idle"]
  /\ wcurrent = [t \in 1..MaxThreads |-> 0]
  /\ witer = [t \in 1..MaxThreads |-> 0]
  /\ tpc = "idle"
  /\ tidx = 0
  /\ result = -1

PCIdle ==
  /\ numProducers = 0
  /\ numItems = 0
  /\ numConsumers = 0
  /\ maxsize = 0
  /\ queue = <<>>
  /\ unfinished = 0
  /\ stop_event = FALSE
  /\ ppc = [p \in 0..(MaxProducers - 1) |-> "idle"]
  /\ pidx = [p \in 0..(MaxProducers - 1) |-> 0]
  /\ cpc = [c \in 0..(MaxConsumers - 1) |-> "idle"]
  /\ citem = [c \in 0..(MaxConsumers - 1) |-> <<>>]
  /\ consumed = [c \in 0..(MaxConsumers - 1) |-> <<>>]
  /\ mpc = "idle"
  /\ midx = 0

PoolIdle ==
  /\ poolMode = "none"
  /\ max_workers = 0
  /\ inputs = <<>>
  /\ work_queue = <<>>
  /\ fstate = <<>>
  /\ fresult = <<>>
  /\ worker = [w \in 1..MaxWorkers |-> 0]
  /\ xpc = "idle"
  /\ submitted = 0
  /\ acYield = <<>>
  /\ acPending = {}
  /\ waiterOn = FALSE
  /\ waiterFinished = <<>>
  /\ results = <<>>
  /\ completed = <<>>
  /\ acFirst = {}
  /\ NoFailure

CounterNext ==
  /\ UNCHANGED <<pcVars, poolVars>>
  /\ \/ StartThread
     \/ StartDone
     \/ JoinThread
     \/ JoinDone
     \/ GetValue
     \/ \E t \in Threads : WorkerLoop(t)
     \/ \E t \in Threads : CounterAcquire(t)
     \/ \E t \in Threads : CounterRead(t)
     \/ \E t \in Threads : CounterWrite(t)
     \/ \E t \in Threads : CounterRelease(t)

UnsafeNext ==
  /\ UNCHANGED <<pcVars, poolVars>>
  /\ \/ StartThread
     \/ StartDone
     \/ JoinThread
     \/ JoinDone
     \/ GetValue
     \/ \E t \in Threads : WorkerLoop(t)
     \/ \E t \in Threads : UnsafeRead(t)
     \/ \E t \in Threads : UnsafeWrite(t)

PCNext ==
  /\ UNCHANGED <<counterVars, poolVars>>
  /\ \/ StartProducer
     \/ StartConsumer
     \/ JoinProducer
     \/ QueueJoin
     \/ SetStop
     \/ JoinConsumer
     \/ \E p \in Producers : ProducerLoop(p)
     \/ \E p \in Producers : ProducerPut(p)
     \/ \E c \in Consumers : ConsumerCheckStop(c)
     \/ \E c \in Consumers : ConsumerCheckEmpty(c)
     \/ \E c \in Consumers : ConsumerGet(c)
     \/ \E c \in Consumers : ConsumerGetEmpty(c)
     \/ \E c \in Consumers : ConsumerTaskDone(c)

AnyStopNext ==
  /\ UNCHANGED <<counterVars, poolVars>>
  /\ \/ StartProducer
     \/ StartConsumer
     \/ JoinProducer
     \/ QueueJoin
     \/ SetStop
     \/ JoinConsumer
     \/ StopAnytime
     \/ \E p \in Producers : ProducerLoop(p)
     \/ \E p \in Producers : ProducerPut(p)
     \/ \E c \in Consumers : ConsumerCheckStop(c)
     \/ \E c \in Consumers : ConsumerCheckEmpty(c)
     \/ \E c \in Consumers : ConsumerGet(c)
     \/ \E c \in Consumers : ConsumerGetEmpty(c)
     \/ \E c \in Consumers : ConsumerTaskDone(c)

EarlyStopNext ==
  /\ UNCHANGED <<counterVars, poolVars>>
  /\ \/ TestPut
     \/ TestSetStop
     \/ TestStartConsumer
     \/ JoinConsumer
     \/ \E c \in Consumers : ConsumerCheckStop(c)
     \/ \E c \in Consumers : ConsumerCheckEmpty(c)
     \/ \E c \in Consumers : ConsumerGet(c)
     \/ \E c \in Consumers : ConsumerGetEmpty(c)
     \/ \E c \in Consumers : ConsumerTaskDone(c)

PoolNext ==
  /\ UNCHANGED <<counterVars, pcVars, failing, raisedBy>>
  /\ \/ Submit
     \/ SubmitDone
     \/ \E w \in Workers : WorkerTake(w)
     \/ \E w \in Workers : WorkerFinish(w)
     \/ AsCompletedInit
     \/ AsCompletedYield
     \/ AsCompletedWait
     \/ AsCompletedEnd
     \/ Shutdown

MapNextStep ==
  /\ UNCHANGED <<counterVars, pcVars, failing, raisedBy>>
  /\ \/ Submit
     \/ SubmitDone
     \/ \E w \in Workers : WorkerTake(w)
     \/ \E w \in Workers : WorkerFinish(w)
     \/ MapResult
     \/ MapEnd
     \/ Shutdown

\* test_safe_counter / the second half of run_synchronization_example
InitCounter == CounterInit("Counter") /\ PCIdle /\ PoolIdle

SpecCounter == InitCounter /\ [][CounterNext]_vars

\* test_unsafe_counter_race_condition / the first half of the example
InitUnsafe == CounterInit("UnsafeCounter") /\ PCIdle /\ PoolIdle

SpecUnsafe == InitUnsafe /\ [][UnsafeNext]_vars

\* run_producer_consumer_example / test_producer_consumer_integration
InitPC == CounterIdle /\ PCInit /\ PoolIdle

SpecPC == InitPC /\ [][PCNext]_vars

\* The same under fair scheduling of every thread.
CoordinatorStep ==
  /\ UNCHANGED <<counterVars, poolVars>>
  /\ (StartProducer \/ StartConsumer \/ JoinProducer \/ QueueJoin \/ SetStop
        \/ JoinConsumer)

ProducerStep(p) ==
  /\ UNCHANGED <<counterVars, poolVars>>
  /\ p \in Producers
  /\ (ProducerLoop(p) \/ ProducerPut(p))

ConsumerStep(c) ==
  /\ UNCHANGED <<counterVars, poolVars>>
  /\ c \in Consumers
  /\ (ConsumerCheckStop(c) \/ ConsumerCheckEmpty(c) \/ ConsumerGet(c)
        \/ ConsumerGetEmpty(c) \/ ConsumerTaskDone(c))

PCFairness ==
  /\ WF_vars(CoordinatorStep)
  /\ \A p \in 0..(MaxProducers - 1) : WF_vars(ProducerStep(p))
  /\ \A c \in 0..(MaxConsumers - 1) : WF_vars(ConsumerStep(c))

SpecPCFair ==
  InitPC /\ [][PCNext]_vars /\ PCFairness

\* producers and consumers with the stop event set at an arbitrary moment
SpecAnyStop == InitPC /\ [][AnyStopNext]_vars

\* test_consumer, under fair scheduling of every thread
InitEarlyStop == CounterIdle /\ EarlyStopInit /\ PoolIdle

TestStep ==
  /\ UNCHANGED <<counterVars, poolVars>>
  /\ (TestPut \/ TestSetStop \/ TestStartConsumer \/ JoinConsumer)

EarlyStopFairness ==
  /\ WF_vars(TestStep)
  /\ \A c \in 0..(MaxConsumers - 1) : WF_vars(ConsumerStep(c))

SpecEarlyStop ==
  InitEarlyStop /\ [][EarlyStopNext]_vars /\ EarlyStopFairness

\* run_thread_pool_example
InitPool == CounterIdle /\ PCIdle /\ PoolInit("as_completed") /\ NoFailure

SpecPool == InitPool /\ [][PoolNext]_vars

\* map_example
InitMap == CounterIdle /\ PCIdle /\ PoolInit("map") /\ NoFailure

\* run_thread_pool_example with one task whose body raises
PoolFailNext ==
  /\ UNCHANGED <<counterVars, pcVars, failing>>
  /\ \/ /\ UNCHANGED raisedBy
        /\ \/ Submit
           \/ SubmitDone
           \/ \E w \in Workers : WorkerTake(w)
           \/ \E w \in Workers : WorkerFinish(w)
           \/ \E w \in Workers : WorkerFail(w)
           \/ AsCompletedInit
           \/ AsCompletedYield
           \/ AsCompletedWait
           \/ AsCompletedEnd
           \/ Shutdown
     \/ ResultRaises

InitPoolFail ==
  CounterIdle /\ PCIdle /\ PoolInit("as_completed") /\ OneFailure

SpecPoolFail == InitPoolFail /\ [][PoolFailNext]_vars

SpecMap == InitMap /\ [][MapNextStep]_vars

\* ================================================================ claims

\* C1: once all N threads are joined, Counter.get_value() returns exactly
\* N*M: no increment of the locked counter is lost, under any interleaving.
SafeCounterTotal ==
  tpc = "done" => result = numThreads * iterations

SafeCounterTotalWitness ==
  /\ counterKind = "Counter"
  /\ tpc = "done"
  /\ numThreads >= 2
  /\ iterations >= 2
  /\ result = numThreads * iterations

\* C10: with UnsafeCounter a run can end with get_value() below N*M; any
\* difference from N*M is a loss and needs at least two threads and one
\* iteration (the witness is a final state that lost an update).
UnsafeCounterLoses ==
  tpc = "done" =>
    /\ result <= numThreads * iterations
    /\ result # numThreads * iterations =>
         (numThreads >= 2 /\ iterations >= 1)

UnsafeCounterLosesWitness ==
  /\ counterKind = "UnsafeCounter"
  /\ tpc = "done"
  /\ numThreads >= 2
  /\ iterations >= 1
  /\ result < numThreads * iterations

\* ---- producer/consumer helpers for the claims
RECURSIVE Occurrences(_, _)
Occurrences(seq, x) ==
  IF seq = <<>> THEN 0
  ELSE (IF Head(seq) = x THEN 1 ELSE 0) + Occurrences(Tail(seq), x)

RECURSIVE SumLen(_, _)
SumLen(f, S) ==
  IF S = {} THEN 0
  ELSE LET c == CHOOSE x \in S : TRUE
       IN Len(f[c]) + SumLen(f, S \ {c})

\* how often an item is held by the queue or was returned by a get
Deliveries(x) ==
  LET RECURSIVE Sum(_)
      Sum(S) == IF S = {} THEN 0
                ELSE LET c == CHOOSE y \in S : TRUE
                     IN Occurrences(consumed[c], x) + Sum(S \ {c})
  IN Sum(Consumers)

TotalGets == SumLen(consumed, Consumers)

AllConsumersOver == \A c \in Consumers : cpc[c] = "done"

AllProducersOver == \A p \in Producers : ppc[p] = "done"

\* C2: conservation. Every item put is either still queued or was returned
\* by get to exactly one consumer, an item not yet put to none; once all
\* consumers have terminated the gets total P*K and the queue is empty.
Conservation ==
  /\ \A p \in Producers : \A i \in 0..(MaxItems - 1) :
       Occurrences(queue, Item(p, i)) + Deliveries(Item(p, i))
         = (IF i < pidx[p] THEN 1 ELSE 0)
  /\ AllConsumersOver =>
       /\ TotalGets = numProducers * numItems
       /\ \A p \in Producers : \A i \in 0..(numItems - 1) :
            Deliveries(Item(p, i)) = 1

ConservationWitness ==
  /\ AllConsumersOver
  /\ numProducers >= 2
  /\ numItems >= 2
  /\ numConsumers >= 2
  /\ \A c \in Consumers : Len(consumed[c]) >= 1
  /\ TotalGets = numProducers * numItems

\* an item was retrieved by a consumer and not yet marked done
PendingWork == \E c \in Consumers : cpc[c] = "process"

Drained == queue = <<>> /\ unfinished = 0 /\ ~PendingWork

\* C3: drain before shutdown. Whenever some consumer thread has terminated,
\* the queue holds no item and no retrieved item is waiting for task_done.
DrainBeforeShutdown ==
  (\E c \in Consumers : cpc[c] = "done") => Drained

DrainBeforeShutdownWitness ==
  /\ \E c \in Consumers : cpc[c] = "done"
  /\ \E c \in Consumers : cpc[c] # "done"
  /\ numProducers * numItems >= 2
  /\ TotalGets = numProducers * numItems

\* C4: shutdown ordering. The stop event is set only when every producer
\* has terminated and the queue is drained, and no put follows it.
ShutdownOrdering ==
  /\ [](stop_event => (AllProducersOver /\ Drained))
  /\ [][(mpc = "set_stop" /\ stop_event')
          => (AllProducersOver /\ Drained /\ mpc' = "join_consumers")]_vars
  /\ [][stop_event => (pidx' = pidx /\ queue' = queue)]_vars

ShutdownOrderingWitness ==
  /\ stop_event
  /\ numProducers >= 2
  /\ numItems >= 1
  /\ maxsize >= 1
  /\ maxsize < numProducers * numItems
  /\ \E c \in Consumers : cpc[c] # "done"

\* C5: termination. Under fair scheduling every run ends with all producers
\* finished, the stop event set, every consumer terminated and the queue
\* empty, also when the capacity is below P*K and put has to block.
Terminated ==
  /\ mpc = "done"
  /\ AllProducersOver
  /\ stop_event
  /\ AllConsumersOver
  /\ queue = <<>>

EventuallyTerminated == <>Terminated

EventuallyTerminatedWitness ==
  /\ Terminated
  /\ maxsize >= 1
  /\ maxsize < numProducers * numItems
  /\ numConsumers >= 2

\* C6: FIFO. With one producer and one consumer the items returned by the
\* successive gets are Item-id-0, Item-id-1, ... in the order of the puts.
FifoOrder ==
  (numProducers = 1 /\ numConsumers = 1) =>
    \A j \in 1..Len(consumed[0]) : consumed[0][j] = Item(0, j - 1)

FifoOrderWitness ==
  /\ numProducers = 1
  /\ numConsumers = 1
  /\ numItems >= 2
  /\ Len(consumed[0]) = numItems
  /\ consumed[0][numItems] = Item(0, numItems - 1)

\* C7: capacity bound. A bounded queue never holds more than maxsize items;
\* a put completes only from a state with fewer than maxsize items and a get
\* only from a state with at least one.
CapacityBound ==
  /\ [](maxsize >= 1 => (0 <= Len(queue) /\ Len(queue) <= maxsize))
  /\ [][(pidx' # pidx /\ maxsize >= 1) => Len(queue) < maxsize]_vars
  /\ [][consumed' # consumed => Len(queue) > 0]_vars

CapacityBoundWitness ==
  /\ maxsize >= 1
  /\ Len(queue) = maxsize
  /\ \E p \in Producers : ppc[p] = "put"
  /\ TotalGets >= 1

\* C8: ordered map. list(executor.map(square, inputs)) is the list whose
\* i-th element is square(inputs[i]), whatever the order of completion; for
\* the inputs 0, 1, 2, ... it is 0, 1, 4, ...
OrderedMap ==
  /\ \A i \in 1..Len(results) : results[i] = inputs[i] * inputs[i]
  /\ xpc = "done" =>
       /\ Len(results) = Len(inputs)
       /\ inputs = [i \in 1..Len(inputs) |-> i - 1] =>
            results = [i \in 1..Len(inputs) |-> (i - 1) * (i - 1)]

\* the inputs 0, 1, 2 mapped to 0, 1, 4 although the last task was the
\* first to complete
OrderedMapWitness ==
  /\ poolMode = "map"
  /\ xpc = "done"
  /\ inputs = <<0, 1, 2>>
  /\ completed[1] = 3
  /\ results = <<0, 1, 4>>

\* C9: exactly-once retrieval. The as_completed loop never collects a task
\* twice, collects only (task_id, task_id * task_id) of submitted tasks, and
\* ends having collected each of the N tasks exactly once.
ExactlyOnce ==
  /\ \A i \in 1..Len(results) :
       /\ \E f \in Futures : results[i] = <<f - 1, (f - 1) * (f - 1)>>
       /\ \A j \in 1..Len(results) : results[i] = results[j] => i = j
  /\ xpc \in {"shutdown", "done"} =>
       /\ Len(results) = Len(inputs)
       /\ \A f \in Futures :
            Occurrences(results, <<f - 1, (f - 1) * (f - 1)>>) = 1

\* all tasks collected, neither completed nor collected in submission order
ExactlyOnceWitness ==
  /\ poolMode = "as_completed"
  /\ xpc = "done"
  /\ Len(inputs) >= 3
  /\ Len(results) = Len(inputs)
  /\ results[1] # <<0, 0>>
  /\ completed[1] # 1

\* C11: consumer started after the stop event. With K items queued, the
\* event set and no producer, no consumer ends while an item is queued, the
\* consumers end having retrieved and marked done all K items (a single
\* consumer: Item-0-0 .. Item-0-(K-1) in order), and they do end.
EarlyStopDrains ==
  /\ []((\E c \in Consumers : cpc[c] = "done") => queue = <<>>)
  /\ [](AllConsumersOver =>
         /\ TotalGets = numItems
         /\ unfinished = 0
         /\ numConsumers = 1 =>
              consumed[0] = [j \in 1..numItems |-> Item(0, j - 1)])
  /\ <>(AllConsumersOver /\ mpc = "done")

EarlyStopDrainsWitness ==
  /\ numProducers = 0
  /\ numConsumers = 1
  /\ numItems >= 3
  /\ stop_event
  /\ mpc = "done"
  /\ Len(consumed[0]) = numItems
  /\ queue = <<>>

\* C12: task failure isolation. A failure is stored on the future of the
\* task that raised and on no other; every other task finishes with its own
\* result; a worker is never left holding a failed task; the caller sees
\* the failure only from result() of the failed future, and by the time the
\* executor is shut down every submitted task has been run.
TaskFailureIsolated ==
  /\ \A f \in Futures :
       fstate[f] = "finished" =>
         fresult[f] = (IF f \in failing THEN Failure
                       ELSE TaskResult(inputs[f]))
  /\ \A w \in Workers : worker[w] # 0 => fstate[worker[w]] = "running"
  /\ \A i \in 1..Len(results) : results[i] # Failure
  /\ raisedBy # 0 => (raisedBy \in failing /\ fstate[raisedBy] = "finished")
  /\ xpc = "done" =>
       /\ \A f \in Futures : fstate[f] = "finished"
       /\ raisedBy \in failing

\* one worker ran the failing first task and then the tasks queued behind it
TaskFailureIsolatedWitness ==
  /\ xpc = "done"
  /\ max_workers = 1
  /\ failing = {1}
  /\ raisedBy = 1
  /\ Len(inputs) >= 3
  /\ completed = [i \in 1..Len(inputs) |-> i]
  /\ fresult[2] = TaskResult(1)

\* C13: consumer exit condition. A consumer thread ends only by a step that
\* evaluates queue_obj.empty() in a state where the stop event is set and the
\* queue is empty; it never ends from the get that timed out, and never
\* while the stop event is unset, whenever the event is set.
ConsumerExitCondition ==
  /\ [][\A c \in Consumers :
         (cpc[c] # "done" /\ cpc'[c] = "done") =>
           (cpc[c] = "check_empty" /\ stop_event /\ queue = <<>>)]_vars
  /\ [](\A c \in Consumers :
         cpc[c] \in {"check_empty", "done"} => stop_event)

\* a consumer that ended on an early stop while a producer was still running
ConsumerExitConditionWitness ==
  /\ \E c \in Consumers : cpc[c] = "done"
  /\ \E c \in Consumers : cpc[c] = "get"
  /\ \E p \in Producers : ppc[p] = "put"
  /\ TotalGets >= 1
  /\ mpc = "join_producers"

\* C14: timeout on an empty queue. A consumer waiting in get on a queue
\* that is empty leaves the get (queue.Empty) rather than wait forever; the
\* step that does so goes back to the while condition and changes neither
\* the queue, nor the unfinished count, nor what any consumer retrieved.
TimeoutOnEmpty ==
  /\ [][\A c \in Consumers :
         (cpc[c] = "get" /\ queue = <<>> /\ cpc'[c] # "get") =>
           /\ cpc'[c] = "check_stop"
           /\ queue' = queue
           /\ unfinished' = unfinished
           /\ consumed' = consumed
           /\ citem' = citem]_vars
  /\ []<>(\A c \in Consumers : ~(cpc[c] = "get" /\ queue = <<>>))

\* a consumer waiting in get on a queue that will stay empty: all items
\* were put and another consumer took the last one
TimeoutOnEmptyWitness ==
  /\ \E c \in Consumers :
       /\ cpc[c] = "get"
       /\ consumed[c] = <<>>
       /\ \E d \in Consumers : d # c /\ cpc[d] = "process"
  /\ queue = <<>>
  /\ unfinished = 1
  /\ stop_event
  /\ numItems >= 2
  /\ pidx[0] = numItems

\* ---- counter helpers for the claims
\* the threads between the read of self.value and the end of the with block
InSection == {t \in Threads : wpc[t] \in {"read", "write", "release"}}

RECURSIVE SumOver(_, _)
SumOver(f, S) ==
  IF S = {} THEN 0
  ELSE LET t == CHOOSE x \in S : TRUE
       IN f[t] + SumOver(f, S \ {t})

\* the increment calls that have returned
CompletedIncrements == SumOver(witer, Threads)

\* C15: critical-section exclusion. At most one thread is inside the
\* read-modify-write of Counter.increment, it is the holder of the lock, the
\* value it read is still the counter's value when it writes, and a thread
\* outside the section does not hold the lock.
CriticalSectionExclusion ==
  /\ Cardinality(InSection) <= 1
  /\ \A t \in Threads : (t \in InSection) <=> (lock = t)
  /\ \A t \in Threads : wpc[t] = "write" => value = wcurrent[t]
  /\ tpc \in {"get", "done"} => lock = 0

\* one thread between its read and its write, another waiting for the lock
CriticalSectionExclusionWitness ==
  /\ counterKind = "Counter"
  /\ \E t \in Threads : \E u \in Threads :
       /\ wpc[t] = "write"
       /\ wpc[u] = "acquire"
       /\ witer[u] >= 1
  /\ value >= 1

\* C16: whenever the lock is free, value is the number of increment calls
\* that have completed (0 for a fresh counter), and that is what get_value,
\* which reads with the lock held, returns.
ValueCountsCompleted ==
  /\ LockFree(lock) => value = CompletedIncrements
  /\ (\A t \in Threads : wpc[t] = "idle") => value = 0
  /\ result # -1 => result = CompletedIncrements

\* the lock is free between two increments of a run in progress
ValueCountsCompletedWitness ==
  /\ counterKind = "Counter"
  /\ lock = 0
  /\ value = 2
  /\ tpc = "join"
  /\ \E t \in Threads : wpc[t] = "acquire" /\ witer[t] = 1

\* ---- thread pool helpers for the claims
\* the future whose result is the i-th collected: task ids are 0, 1, ...
Collected(i) == results[i][1] + 1

\* the rank of a future in the order of completion (0: not completed)
CompletionRank(f) ==
  IF \E k \in 1..Len(completed) : completed[k] = f
    THEN CHOOSE k \in 1..Len(completed) : completed[k] = f
    ELSE 0

Running == {f \in Futures : fstate[f] = "running"}

\* C18: fixed pool size. At most max_workers tasks execute at once, each on
\* a worker of its own; the submitted tasks that no worker has taken wait in
\* the internal queue, each once; a submit is never blocked; a task starts
\* only from the queue, on one idle worker, and never starts again.
FixedPoolSize ==
  /\ [](/\ Cardinality(Running) <= max_workers
        /\ Running = {worker[w] : w \in Workers} \ {0}
        /\ \A v \in Workers : \A w \in Workers :
             (v # w /\ worker[v] # 0) => worker[v] # worker[w]
        /\ \A f \in Futures :
             Occurrences(work_queue, f) = (IF fstate[f] = "pending" THEN 1 ELSE 0)
        /\ (xpc = "submit" /\ submitted < Len(inputs)) => ENABLED Submit
        /\ xpc = "done" => \A f \in Futures : fstate[f] = "finished")
  /\ [][\A f \in Futures :
         /\ (fstate[f] # "running" /\ fstate'[f] = "running") =>
              /\ fstate[f] = "pending"
              /\ work_queue # <<>> /\ Head(work_queue) = f
              /\ Cardinality({w \in Workers :
                               worker[w] = 0 /\ worker'[w] = f}) = 1
         /\ fstate[f] = "running" => fstate'[f] \in {"running", "finished"}
         /\ fstate[f] = "finished" => fstate'[f] = "finished"]_vars

\* every worker is busy, a task waits in the queue and the caller still
\* submits
FixedPoolSizeWitness ==
  /\ max_workers = 2
  /\ Cardinality(Running) = 2
  /\ Len(work_queue) >= 1
  /\ xpc = "submit"
  /\ submitted < Len(inputs)

\* ---- pending-work helpers for the claims
\* the items a consumer has retrieved and not yet marked done
Retrieved == Cardinality({c \in Consumers : cpc[c] = "process"})

TotalPuts == SumOver(pidx, Producers)

\* the task_done calls made so far: one per get whose item is processed
TaskDones == TotalGets - Retrieved

\* C19: pending-work accounting. The unfinished count is the number of items
\* queued plus the number retrieved and not yet marked done, never negative,
\* and equal to puts minus task_done calls; a consumer marks done exactly once
\* after each successful get and at no other time.
PendingWorkAccounting ==
  /\ [](/\ unfinished = Len(queue) + Retrieved
        /\ unfinished >= 0
        /\ TaskDones >= 0
        /\ TaskDones <= TotalPuts
        /\ unfinished = TotalPuts - TaskDones
        /\ \A c \in Consumers : cpc[c] = "process" =>
             /\ consumed[c] # <<>>
             /\ citem[c] = consumed[c][Len(consumed[c])])
  /\ [][/\ unfinished' >= unfinished - 1
        /\ (unfinished' < unfinished) <=> (Retrieved' < Retrieved)
        /\ \A c \in Consumers :
             /\ (cpc[c] # "process" /\ cpc'[c] = "process") =>
                  /\ cpc[c] = "get"
                  /\ queue # <<>>
                  /\ consumed'[c] = Append(consumed[c], Head(queue))
                  /\ unfinished' = unfinished
             /\ (cpc[c] = "process" /\ cpc'[c] # "process") =>
                  /\ cpc'[c] = "check_stop"
                  /\ unfinished' = unfinished - 1
                  /\ consumed' = consumed
             /\ cpc[c] # "get" => consumed'[c] = consumed[c]]_vars

\* one item queued, one being processed, one already marked done
PendingWorkAccountingWitness ==
  /\ Len(queue) >= 1
  /\ Retrieved >= 1
  /\ TaskDones >= 1
  /\ unfinished = Len(queue) + Retrieved
  /\ \E c \in Consumers : cpc[c] = "get" /\ consumed[c] # <<>>

\* C20: lost updates only lose. With UnsafeCounter the value is never
\* negative and never above the number of increment calls whose write is
\* done, so the final value is at most N*M; once one increment has completed
\* the value is at least 1.
LostUpdatesOnlyLose ==
  /\ value >= 0
  /\ value <= CompletedIncrements
  /\ CompletedIncrements <= numThreads * iterations
  /\ CompletedIncrements >= 1 => value >= 1
  /\ \A t \in Threads : wpc[t] = "uwrite" =>
       (wcurrent[t] >= 0 /\ wcurrent[t] <= CompletedIncrements)
  /\ result # -1 => (result >= 0 /\ result <= numThreads * iterations)
  /\ (tpc = "done" /\ numThreads >= 1 /\ iterations >= 1) => result >= 1

\* a write has just overwritten another thread's increment: two increments
\* are done, the value is 1, and a thread is still to write
LostUpdatesOnlyLoseWitness ==
  /\ counterKind = "UnsafeCounter"
  /\ CompletedIncrements >= 2
  /\ value = 1
  /\ \E t \in Threads : wpc[t] = "uwrite" /\ wcurrent[t] = 1
  /\ tpc = "join"

====
